---- MODULE Spec2Model ----
(***************************************************************************)
(* A model of the dynamiccontrol server: the load phase of cmd/server      *)
(* (policies, route configuration, route registration on the gin engine)   *)
(* and the per-request pipeline of internal/router (route lookup, JSON     *)
(* binding, request schema validation, policy evaluation, response         *)
(* production and response validation).                                    *)
(*                                                                         *)
(* Paths are sequences of their '/'-separated segments: "/v1/status" is    *)
(* <<"v1", "status">>.  A segment that starts with ':' in a route name is  *)
(* a gin path parameter.  JSON numbers are integers here.                  *)
(***************************************************************************)
EXTENDS Integers, Sequences, FiniteSets, TLC

VARIABLES
    policiesDir,   \* the listing of the policies directory (input of the run)
    configFile,    \* the content of config/routes.json (input of the run)
    mainpc,        \* position of main()
    fileIdx,       \* LoadPolicies: index of the next directory entry
    policies,      \* PolicyManager.policies: name -> prepared query
    loadErr,       \* the error LoadPolicies returned ("" = nil)
    config,        \* RouteManager.config (NoConfig = nil)
    routeIdx,      \* RegisterRoutes: index of the next configured route
    engine,        \* the gin engine's routing table
    pc,            \* per client: position of the request in the pipeline
    req,           \* per client: the request being served
    route,         \* per client: the route captured by the handler closure
    requestBody,   \* per client: handlePOST's requestBody
    input,         \* per client: the policy input
    polIdx,        \* per client: EvaluatePolicies: index of the next policy
    evaluated,     \* per client: policies evaluated for this request, in order
    outcomes,      \* per client: what EvaluatePolicy returned for each of them
    policyResult,  \* per client: the result EvaluatePolicies returned
    stages,        \* per client: pipeline stages that ran, in order
    resp,          \* per client: the response written (status, kind, body)
    written,       \* per client: how many responses the handler has written
    logs           \* per client: what the handler logged for this request

loadVars == <<policiesDir, configFile, mainpc, fileIdx, policies, loadErr,
              config, routeIdx, engine>>
reqVars  == <<pc, req, route, requestBody, input, polIdx, evaluated, outcomes,
              policyResult, stages, resp, written, logs>>
vars     == <<policiesDir, configFile, mainpc, fileIdx, policies, loadErr,
              config, routeIdx, engine, pc, req, route, requestBody, input,
              polIdx, evaluated, outcomes, policyResult, stages, resp, written,
              logs>>

----------------------------------------------------------------------------
(* Bounds *)

\* longest policy list of a configured route
MaxPolicies == 2

\* number of requests that can be in flight at the same time
MaxClients == 2

\* longest route list of a configuration with several routes
MaxRoutes == 2

----------------------------------------------------------------------------
(* Helpers on sequences *)

Range(s) == {s[i] : i \in DOMAIN s}

IsInjective(s) == \A i, j \in DOMAIN s : s[i] = s[j] => i = j

SeqsUpTo(S, n) == UNION {[1..k -> S] : k \in 0..n}

----------------------------------------------------------------------------
(* Paths *)

StatusPath      == <<"v1", "status">>
TrafficTemplate == <<"v1", "services", ":serviceId", "traffic">>
TrafficPath     == <<"v1", "services", "service123", "traffic">>
UnknownPath     == <<"v1", "nonexistent">>
HealthPath      == <<"health">>
InfoPath        == <<"info">>

ParamSegments == {":serviceId"}

\* gin's tree lookup: a parameter segment matches any segment
PathMatches(template, path) ==
    /\ Len(template) = Len(path)
    /\ \A i \in 1..Len(template) :
          template[i] \in ParamSegments \/ template[i] = path[i]

----------------------------------------------------------------------------
(* JSON values and request bodies *)

NoFields == [k \in {} |-> 0]

\* a JSON value where a number is expected: a number, or a string
Number(n) == [type |-> "number", value |-> n]
Text      == [type |-> "string", value |-> 0]

BodyNone      == [kind |-> "none",      fields |-> NoFields]
BodyMalformed == [kind |-> "malformed", fields |-> NoFields]
BodyNull      == [kind |-> "null",      fields |-> NoFields]
BodyArray     == [kind |-> "array",     fields |-> NoFields]
BodyValid     == [kind |-> "object",
                  fields |-> [trafficType |-> "incoming", volume |-> Number(100),
                              priority |-> "medium"]]
BodyInvalid   == [kind |-> "object",
                  fields |-> [trafficType |-> "invalid", volume |-> Number(-10),
                              priority |-> "wrong"]]
BodyPartial   == [kind |-> "object", fields |-> [trafficType |-> "incoming"]]
BodyTextVolume == [kind |-> "object",
                   fields |-> [trafficType |-> "incoming", volume |-> Text,
                               priority |-> "medium"]]
\* bodies that are a JSON string, number or boolean
BodyString == [kind |-> "string",  fields |-> NoFields]
BodyNumber == [kind |-> "number",  fields |-> NoFields]
BodyBool   == [kind |-> "boolean", fields |-> NoFields]

\* the value of a Go interface{} that holds nil
NilValue == BodyNull

Bodies == {BodyNone, BodyMalformed, BodyNull, BodyArray, BodyValid,
           BodyInvalid, BodyPartial}

\* http.Header: name -> list of values
HeadersNone == [k \in {} |-> <<>>]
HeadersAuth == [k \in {"Authorization"} |-> <<"Bearer t", "Bearer u">>]
HeaderSets  == {HeadersNone, HeadersAuth}
HeadersJSON == [k \in {"Content-Type"} |-> <<"application/json">>]
HeadersBoth == [k \in {"Content-Type", "Authorization"} |->
                   IF k = "Authorization" THEN <<"Bearer t">>
                   ELSE <<"application/json">>]
StatusHeaderSets == HeaderSets \cup {HeadersJSON, HeadersBoth}

ReqMethods == {"GET", "POST", "PUT"}
ReqPaths   == {StatusPath, TrafficPath, UnknownPath}

Requests == [method : ReqMethods, path : ReqPaths, headers : HeaderSets,
             body : Bodies]

NoRequest == [method |-> "", path |-> <<>>, headers |-> HeadersNone,
              body |-> BodyNone]

----------------------------------------------------------------------------
(* types.PolicyResult, types.ValidationResult *)

NoError == [msg |-> "", policy |-> ""]

PolicyResult(allowed, msg, name) ==
    [Allowed |-> allowed, Error |-> [msg |-> msg, policy |-> name]]

ValidationResult(valid, errors) == [Valid |-> valid, Errors |-> errors]

----------------------------------------------------------------------------
(* Schema Validator *)

\* a SchemaDoc: absent in the configuration (nil), {} or a schema
SchemaNil     == [kind |-> "nil"]
SchemaEmpty   == [kind |-> "empty"]
\* the traffic request schema (type object; trafficType and priority are
\* string enums, volume is a number with minimum 0; all three are required)
SchemaTraffic == [kind |-> "traffic"]

TrafficTypes == {"incoming", "outgoing", "internal"}
Priorities   == {"low", "medium", "high", "critical"}

\* the constraints of the traffic schema, in the order they are reported
TrafficConstraints ==
    << [field |-> "trafficType", rule |-> "required"],
       [field |-> "volume",      rule |-> "required"],
       [field |-> "priority",    rule |-> "required"],
       [field |-> "trafficType", rule |-> "enum"],
       [field |-> "volume",      rule |-> "type"],
       [field |-> "volume",      rule |-> "minimum"],
       [field |-> "priority",    rule |-> "enum"] >>

\* gojsonschema.Validate on an object document: is constraint c violated
Violates(fields, c) ==
    IF c.rule = "required" THEN c.field \notin DOMAIN fields
    ELSE /\ c.field \in DOMAIN fields
         /\ CASE c.field = "trafficType" -> fields[c.field] \notin TrafficTypes
              [] c.field = "priority"    -> fields[c.field] \notin Priorities
              [] c.rule = "type"         -> fields[c.field].type # "number"
              [] OTHER                   -> /\ fields[c.field].type = "number"
                                            /\ fields[c.field].value < 0

\* the errors gojsonschema reports for a document against the traffic schema
SchemaErrors(data) ==
    IF data.kind # "object"
    THEN << [field |-> "(root)", rule |-> "type"] >>
    ELSE SelectSeq(TrafficConstraints, LAMBDA c : Violates(data.fields, c))

\* ValidateRequest, were an absent value to fail under an empty schema
ValidateRequest_InspectsValue(schema, data) ==
    IF schema.kind \in {"nil", "empty"}
    THEN IF data.kind = "null"
         THEN ValidationResult(FALSE, << [field |-> "(root)", rule |-> "data"] >>)
         ELSE ValidationResult(TRUE, <<>>)
    ELSE LET errors == SchemaErrors(data)
         IN  IF errors = <<>>
             THEN ValidationResult(TRUE, <<>>)
             ELSE ValidationResult(FALSE, errors)

ValidateRequest(schema, data) ==
    IF schema.kind \in {"nil", "empty"}
    THEN ValidationResult(TRUE, <<>>)
    ELSE LET errors == SchemaErrors(data)
         IN  IF errors = <<>>
             THEN ValidationResult(TRUE, <<>>)
             ELSE ValidationResult(FALSE, errors)

ValidateResponse(schema, data) == ValidateRequest(schema, data)

----------------------------------------------------------------------------
(* Policy Engine *)

PolicyNames == {"status_policy", "traffic_policy", "service_policy",
                "audit_policy"}

\* createHandler: the first value of every header that has one
ExtractHeaders(h) ==
    [k \in {n \in DOMAIN h : Len(h[n]) > 0} |-> h[k][1]]

\* CreatePolicyInput, were it to pass on every body that is not nil
CreatePolicyInput_AnyValue(method, path, headers, body) ==
    LET base == [k \in {"method", "path", "headers"} |->
                    CASE k = "method" -> method
                      [] k = "path"   -> path
                      [] OTHER        -> headers]
    IN  IF body.kind # "null"
        THEN [k \in {"method", "path", "headers", "body"} |->
                 IF k = "body" THEN body.fields ELSE base[k]]
        ELSE base

\* the body key is set when the body is not nil and its JSON encoding
\* unmarshals into a map, which only that of an object does
CreatePolicyInput(method, path, headers, body) ==
    LET base == [k \in {"method", "path", "headers"} |->
                    CASE k = "method" -> method
                      [] k = "path"   -> path
                      [] OTHER        -> headers]
    IN  IF body.kind = "object"
        THEN [k \in {"method", "path", "headers", "body"} |->
                 IF k = "body" THEN body.fields ELSE base[k]]
        ELSE base

HasPrefixServices(path) ==
    Len(path) >= 3 /\ path[1] = "v1" /\ path[2] = "services"

HasSuffixTraffic(path) ==
    Len(path) >= 1 /\ path[Len(path)] = "traffic"

\* status_policy, were it to allow authorized requests only
StatusAllow_AuthorizedOnly(in) ==
    /\ in["method"] = "GET" /\ in["path"] = StatusPath
    /\ "Authorization" \in DOMAIN in["headers"]

\* policies/status_policy.rego: allow
StatusAllow(in) ==
    LET isStatus == in["method"] = "GET" /\ in["path"] = StatusPath
        hdr      == in["headers"]
    IN  \/ isStatus
        \/ /\ isStatus
           /\ "Content-Type" \in DOMAIN hdr
           /\ hdr["Content-Type"] = "application/json"
        \/ /\ isStatus
           /\ "Authorization" \in DOMAIN hdr

\* Rego's >= on a value and a number: values of different types are ordered
\* by type, and every string sorts after every number
RegoGreaterEqual(v, n) ==
    IF v.type = "number" THEN v.value >= n ELSE TRUE

\* traffic_policy: allow
TrafficAllow(in) ==
    /\ in["method"] = "POST"
    /\ HasPrefixServices(in["path"])
    /\ HasSuffixTraffic(in["path"])
    /\ "body" \in DOMAIN in
    /\ LET b == in["body"]
       IN  /\ "trafficType" \in DOMAIN b /\ b["trafficType"] \in TrafficTypes
           /\ "volume" \in DOMAIN b /\ RegoGreaterEqual(b["volume"], 0)
           /\ "priority" \in DOMAIN b /\ b["priority"] \in Priorities

\* service_policy: allow
ServiceAllow(in) ==
    /\ in["method"] = "POST"
    /\ HasPrefixServices(in["path"])
    /\ HasSuffixTraffic(in["path"])

BoolValue(b) == [isBool |-> TRUE, bool |-> b]
StringValue  == [isBool |-> FALSE, bool |-> FALSE]

\* PreparedEvalQuery.Eval of a compiled source on an input: the engine error
\* and the result set (the values of the query's expressions)
RegoEval(source, in) ==
    CASE source = "status"    -> [err |-> FALSE, results |-> <<BoolValue(StatusAllow(in))>>]
      [] source = "traffic"   -> [err |-> FALSE, results |-> <<BoolValue(TrafficAllow(in))>>]
      [] source = "service"   -> [err |-> FALSE, results |-> <<BoolValue(ServiceAllow(in))>>]
      [] source = "nonbool"   -> [err |-> FALSE, results |-> <<StringValue>>]
      [] source = "undefined" -> [err |-> FALSE, results |-> <<>>]
      [] OTHER                -> [err |-> TRUE,  results |-> <<>>]

\* EvaluatePolicy, were an unknown policy name to allow
EvaluatePolicy_FailOpen(pm, policyName, in) ==
    IF policyName \notin DOMAIN pm
    THEN PolicyResult(TRUE, "", "")
    ELSE LET r == RegoEval(pm[policyName], in)
         IN  IF r.err
             THEN PolicyResult(FALSE, "Policy evaluation error", "")
             ELSE IF Len(r.results) = 0
             THEN PolicyResult(FALSE, "No policy result found", "")
             ELSE IF ~r.results[1].isBool
             THEN PolicyResult(FALSE, "Policy result is not a boolean", "")
             ELSE PolicyResult(r.results[1].bool, "", "")

\* EvaluatePolicy, were any result that is not the boolean false to allow
EvaluatePolicy_Truthy(pm, policyName, in) ==
    IF policyName \notin DOMAIN pm
    THEN PolicyResult(FALSE, "Policy not found", policyName)
    ELSE LET r == RegoEval(pm[policyName], in)
         IN  IF r.err
             THEN PolicyResult(FALSE, "Policy evaluation error", "")
             ELSE IF Len(r.results) = 0
             THEN PolicyResult(FALSE, "No policy result found", "")
             ELSE IF ~r.results[1].isBool
             THEN PolicyResult(TRUE, "", "")
             ELSE PolicyResult(r.results[1].bool, "", "")

EvaluatePolicy(pm, policyName, in) ==
    IF policyName \notin DOMAIN pm
    THEN PolicyResult(FALSE, "Policy not found", policyName)
    ELSE LET r == RegoEval(pm[policyName], in)
         IN  IF r.err
             THEN PolicyResult(FALSE, "Policy evaluation error", "")
             ELSE IF Len(r.results) = 0
             THEN PolicyResult(FALSE, "No policy result found", "")
             ELSE IF ~r.results[1].isBool
             THEN PolicyResult(FALSE, "Policy result is not a boolean", "")
             ELSE PolicyResult(r.results[1].bool, "", "")

----------------------------------------------------------------------------
(* Inputs of a run: the policies directory and the route configuration *)

FileEntry(base, ext, isDir, source) ==
    [base |-> base, ext |-> ext, isDir |-> isDir, source |-> source]

\* what audit_policy.rego and traffic_policy.rego may hold
AuditSources   == {"undefined", "nonbool", "evalerror", "absent", "syntaxerror"}
TrafficSources == {"traffic", "syntaxerror", "unreadable"}

\* ioutil.ReadDir lists the entries sorted by file name
Listing(audit, traffic) ==
    << FileEntry("archive", ".rego", TRUE, "none") >>
    \o (IF audit = "absent" THEN <<>>
        ELSE << FileEntry("audit_policy", ".rego", FALSE, audit) >>)
    \o << FileEntry("service_policy", ".rego", FALSE, "service"),
          FileEntry("status_policy", ".rego", FALSE, "status"),
          FileEntry("status_policy.rego", ".test", FALSE, "none"),
          FileEntry("traffic_policy", ".rego", FALSE, traffic) >>

Directories ==
    {[readable |-> TRUE, files |-> Listing(a, t)] :
        <<a, t>> \in {x \in AuditSources \X TrafficSources :
                         x[1] = "undefined" \/ x[2] = "traffic"}}
    \cup {[readable |-> FALSE, files |-> <<>>]}

RouteConfig(name, method, reqSchema, respSchema, pols) ==
    [RouteName |-> name, Method |-> method, RequestSchema |-> reqSchema,
     ResponseSchema |-> respSchema, Policies |-> pols]

NoRoute == RouteConfig(<<>>, "", SchemaNil, SchemaNil, <<>>)

PolicyLists == {s \in SeqsUpTo(PolicyNames, MaxPolicies) : IsInjective(s)}

RouteNames     == {StatusPath, TrafficTemplate}
RouteMethods   == {"GET", "POST", "PUT", "PATCH"}
RequestSchemas == {SchemaNil, SchemaEmpty, SchemaTraffic}

RouteSet ==
    {r \in [RouteName : RouteNames, Method : RouteMethods,
            RequestSchema : RequestSchemas, ResponseSchema : {SchemaNil},
            Policies : PolicyLists] :
        r.Method \in {"GET", "POST"} \/ Len(r.Policies) <= 1}

ConfigFiles ==
    {[ok |-> TRUE, routes |-> <<r>>] : r \in RouteSet}
    \cup {[ok |-> TRUE, routes |-> <<>>], [ok |-> FALSE, routes |-> <<>>]}

NoConfig == [loaded |-> FALSE, Routes |-> <<>>]

----------------------------------------------------------------------------
(* Per-request state *)

\* the requests in flight, each served on a goroutine of its own
Clients    == 1..MaxClients

\* the client of the runs that serve one request at a time
Sequential == {1}

NoResponse == [status |-> 0, kind |-> "", body |-> "", errors |-> <<>>]

Response(status, kind, body, errors) ==
    [status |-> status, kind |-> kind, body |-> body, errors |-> errors]

NoPolicyResult == [Allowed |-> FALSE, Error |-> [msg |-> "unset", policy |-> ""]]

NoInput == [k \in {} |-> 0]

\* the state when main starts, the files on disk drawn from the given sets
InitWith(directories, configFiles) ==
    /\ policiesDir \in directories
    /\ configFile \in configFiles
    /\ mainpc = "load_policies"
    /\ fileIdx = 1
    /\ policies = [n \in {} |-> ""]
    /\ loadErr = ""
    /\ config = NoConfig
    /\ routeIdx = 1
    /\ engine = {}
    /\ pc = [c \in Clients |-> "idle"]
    /\ req = [c \in Clients |-> NoRequest]
    /\ route = [c \in Clients |-> NoRoute]
    /\ requestBody = [c \in Clients |-> NilValue]
    /\ input = [c \in Clients |-> NoInput]
    /\ polIdx = [c \in Clients |-> 1]
    /\ evaluated = [c \in Clients |-> <<>>]
    /\ outcomes = [c \in Clients |-> <<>>]
    /\ policyResult = [c \in Clients |-> NoPolicyResult]
    /\ stages = [c \in Clients |-> <<>>]
    /\ resp = [c \in Clients |-> NoResponse]
    /\ written = [c \in Clients |-> 0]
    /\ logs = [c \in Clients |-> <<>>]

Init == InitWith(Directories, ConfigFiles)

----------------------------------------------------------------------------
(* The load phase: main *)

\* loadPolicy: the policy map after loading one file, and whether it failed
loadPolicy(pm, policyName, file) ==
    IF file.source \in {"unreadable", "syntaxerror"}
    THEN [failed |-> TRUE, policies |-> pm]
    ELSE [failed |-> FALSE,
          policies |-> [n \in DOMAIN pm \cup {policyName} |->
                           IF n = policyName THEN file.source ELSE pm[n]]]

\* LoadPolicies, were the first file that fails to load to abort the load
\* with an error
LoadPolicies_Aborts ==
    /\ mainpc = "load_policies"
    /\ IF ~policiesDir.readable
       THEN /\ loadErr' = "failed to read policies directory"
            /\ mainpc' = "load_config"
            /\ UNCHANGED <<fileIdx, policies>>
       ELSE IF fileIdx > Len(policiesDir.files)
       THEN /\ mainpc' = "load_config"
            /\ UNCHANGED <<fileIdx, policies, loadErr>>
       ELSE LET file == policiesDir.files[fileIdx]
                skip == file.isDir \/ file.ext # ".rego"
                res  == loadPolicy(policies, file.base, file)
            IN  IF ~skip /\ res.failed
                THEN /\ loadErr' = "failed to load policy"
                     /\ mainpc' = "load_config"
                     /\ UNCHANGED <<fileIdx, policies>>
                ELSE /\ fileIdx' = fileIdx + 1
                     /\ policies' = IF skip THEN policies ELSE res.policies
                     /\ UNCHANGED <<mainpc, loadErr>>
    /\ UNCHANGED <<policiesDir, configFile, config, routeIdx, engine>>
    /\ UNCHANGED reqVars

\* LoadPolicies: ReadDir, then one directory entry per step
LoadPolicies ==
    /\ mainpc = "load_policies"
    /\ IF ~policiesDir.readable
       THEN /\ loadErr' = "failed to read policies directory"
            /\ mainpc' = "load_config"
            /\ UNCHANGED <<fileIdx, policies>>
       ELSE IF fileIdx > Len(policiesDir.files)
       THEN /\ mainpc' = "load_config"
            /\ UNCHANGED <<fileIdx, policies, loadErr>>
       ELSE LET file == policiesDir.files[fileIdx]
            IN  /\ fileIdx' = fileIdx + 1
                /\ policies' = IF file.isDir \/ file.ext # ".rego"
                               THEN policies
                               ELSE loadPolicy(policies, file.base, file).policies
                /\ UNCHANGED <<mainpc, loadErr>>
    /\ UNCHANGED <<policiesDir, configFile, config, routeIdx, engine>>
    /\ UNCHANGED reqVars

\* LoadConfig; main exits (log.Fatalf) when it fails
LoadConfig ==
    /\ mainpc = "load_config"
    /\ IF configFile.ok
       THEN /\ config' = [loaded |-> TRUE, Routes |-> configFile.routes]
            /\ mainpc' = "setup_router"
       ELSE /\ mainpc' = "fatal"
            /\ UNCHANGED config
    /\ UNCHANGED <<policiesDir, configFile, fileIdx, policies, loadErr,
                   routeIdx, engine>>
    /\ UNCHANGED reqVars

Handler(kind, r) == [kind |-> kind, route |-> r]

Entry(method, path, handler) ==
    [method |-> method, path |-> path, handler |-> handler]

\* gin panics when handlers are already registered for the method and path
Conflicts(eng, method, path) ==
    \E e \in eng : e.method = method /\ e.path = path

\* gin.Default() and the health check endpoint
SetupRouter ==
    /\ mainpc = "setup_router"
    /\ engine' = {Entry("GET", HealthPath, Handler("health", NoRoute))}
    /\ routeIdx' = 1
    /\ mainpc' = "register_routes"
    /\ UNCHANGED <<policiesDir, configFile, fileIdx, policies, loadErr, config>>
    /\ UNCHANGED reqVars

SupportedMethods == {"GET", "POST", "PUT", "DELETE"}

\* registerRoute, were a second registration of a method and path accepted
\* next to the first
registerRoute_KeepsBoth(eng, r) ==
    IF r.Method \notin SupportedMethods
    THEN [outcome |-> "unsupported", engine |-> eng]
    ELSE [outcome |-> "ok",
          engine |-> eng \cup {Entry(r.Method, r.RouteName, Handler("route", r))}]

\* registerRoute: the engine after registering r, or the failure
registerRoute(eng, r) ==
    IF r.Method \notin SupportedMethods
    THEN [outcome |-> "unsupported", engine |-> eng]
    ELSE IF Conflicts(eng, r.Method, r.RouteName)
    THEN [outcome |-> "panic", engine |-> eng]
    ELSE [outcome |-> "ok",
          engine |-> eng \cup {Entry(r.Method, r.RouteName, Handler("route", r))}]

\* RegisterRoutes, were it to return the error of registerRoute
RegisterRoutes_ReturnsError ==
    /\ mainpc = "register_routes"
    /\ IF ~config.loaded
       THEN /\ mainpc' = "fatal"
            /\ UNCHANGED <<routeIdx, engine>>
       ELSE IF routeIdx > Len(config.Routes)
       THEN /\ mainpc' = "register_info"
            /\ UNCHANGED <<routeIdx, engine>>
       ELSE LET res == registerRoute(engine, config.Routes[routeIdx])
            IN  /\ engine' = res.engine
                /\ routeIdx' = routeIdx + 1
                /\ mainpc' = CASE res.outcome = "panic"       -> "panic"
                               [] res.outcome = "unsupported" -> "fatal"
                               [] OTHER                       -> mainpc
    /\ UNCHANGED <<policiesDir, configFile, fileIdx, policies, loadErr, config>>
    /\ UNCHANGED reqVars

\* RegisterRoutes: one configured route per step
RegisterRoutes ==
    /\ mainpc = "register_routes"
    /\ IF ~config.loaded
       THEN /\ mainpc' = "fatal"
            /\ UNCHANGED <<routeIdx, engine>>
       ELSE IF routeIdx > Len(config.Routes)
       THEN /\ mainpc' = "register_info"
            /\ UNCHANGED <<routeIdx, engine>>
       ELSE LET res == registerRoute(engine, config.Routes[routeIdx])
            IN  /\ engine' = res.engine
                /\ routeIdx' = routeIdx + 1
                /\ mainpc' = IF res.outcome = "panic" THEN "panic"
                             ELSE mainpc
    /\ UNCHANGED <<policiesDir, configFile, fileIdx, policies, loadErr, config>>
    /\ UNCHANGED reqVars

\* the info endpoint
RegisterInfo ==
    /\ mainpc = "register_info"
    /\ IF Conflicts(engine, "GET", InfoPath)
       THEN /\ mainpc' = "panic"
            /\ UNCHANGED engine
       ELSE /\ engine' = engine \cup
                           {Entry("GET", InfoPath, Handler("info", NoRoute))}
            /\ mainpc' = "run"
    /\ UNCHANGED <<policiesDir, configFile, fileIdx, policies, loadErr,
                   config, routeIdx>>
    /\ UNCHANGED reqVars

\* router.Run: the server starts to accept requests
Run ==
    /\ mainpc = "run"
    /\ mainpc' = "serving"
    /\ UNCHANGED <<policiesDir, configFile, fileIdx, policies, loadErr,
                   config, routeIdx, engine>>
    /\ UNCHANGED reqVars

----------------------------------------------------------------------------
(* The request pipeline *)

\* the listener, were it started as soon as the router is set up, while
\* main still registers the routes
Accepting_DuringLoad ==
    mainpc \in {"register_routes", "register_info", "run", "serving"}

\* the server accepts requests: router.Run was called
Accepting == mainpc = "serving"

\* the dispatch, were it to look the path up in the trees of all methods
Lookup_AnyMethod(eng, method, path) ==
    LET exact   == {e \in eng : e.path = path}
        matches == {e \in eng : PathMatches(e.path, path)}
    IN  IF exact # {} THEN exact ELSE matches

\* gin's dispatch: the handlers of the method's tree that match the path; a
\* static segment is preferred to a parameter
Lookup(eng, method, path) ==
    LET exact   == {e \in eng : e.method = method /\ e.path = path}
        matches == {e \in eng : e.method = method /\ PathMatches(e.path, path)}
    IN  IF exact # {} THEN exact ELSE matches

\* the engine serves a new request: route lookup.  With gin's defaults
\* (HandleMethodNotAllowed is off) a request no handler matches gets 404.
ServeHTTP(c, r) ==
    /\ Accepting
    /\ pc[c] = "idle"
    /\ LET found == Lookup(engine, r.method, r.path)
           h     == (CHOOSE e \in found : TRUE).handler
       IN     /\ req' = [req EXCEPT ![c] = r]
              /\ stages' = [stages EXCEPT ![c] = <<"RouteLookup">>]
              /\ IF found = {}
                 THEN /\ resp' = [resp EXCEPT ![c] =
                                    Response(404, "RouteNotFound", [type |-> "error"], <<>>)]
                      /\ written' = [written EXCEPT ![c] = 1]
                      /\ route' = [route EXCEPT ![c] = NoRoute]
                      /\ pc' = [pc EXCEPT ![c] = "done"]
                 ELSE IF h.kind # "route"
                 THEN /\ resp' = [resp EXCEPT ![c] =
                                    Response(200, h.kind, [type |-> h.kind], <<>>)]
                      /\ written' = [written EXCEPT ![c] = 1]
                      /\ route' = [route EXCEPT ![c] = NoRoute]
                      /\ pc' = [pc EXCEPT ![c] = "done"]
                 ELSE /\ resp' = [resp EXCEPT ![c] = NoResponse]
                      /\ written' = [written EXCEPT ![c] = 0]
                      /\ route' = [route EXCEPT ![c] = h.route]
                      /\ pc' = [pc EXCEPT ![c] = "handler"]
    /\ requestBody' = [requestBody EXCEPT ![c] = NilValue]
    /\ input' = [input EXCEPT ![c] = NoInput]
    /\ polIdx' = [polIdx EXCEPT ![c] = 1]
    /\ evaluated' = [evaluated EXCEPT ![c] = <<>>]
    /\ outcomes' = [outcomes EXCEPT ![c] = <<>>]
    /\ policyResult' = [policyResult EXCEPT ![c] = NoPolicyResult]
    /\ logs' = [logs EXCEPT ![c] = <<>>]
    /\ UNCHANGED loadVars

\* createHandler, case "GET": handleGET up to the evaluation of the policies
\* the path of the policy input, were it the path of the request
PolicyPath_Raw(c) == req[c].path

\* the path the handlers give to CreatePolicyInput: route.RouteName
PolicyPath(c) == route[c].RouteName

handleGET(c) ==
    /\ Accepting
    /\ pc[c] = "handler"
    /\ route[c].Method = "GET"
    /\ input' = [input EXCEPT ![c] =
                    CreatePolicyInput("GET", PolicyPath(c),
                                      ExtractHeaders(req[c].headers), NilValue)]
    /\ polIdx' = [polIdx EXCEPT ![c] = 1]
    /\ pc' = [pc EXCEPT ![c] = "policy"]
    /\ UNCHANGED <<req, route, requestBody, evaluated, outcomes, policyResult,
                   stages, resp, written, logs>>
    /\ UNCHANGED loadVars

\* ShouldBindJSON, were a missing body to bind as an absent value
BindFails_MalformedOnly(body) == body.kind = "malformed"

\* c.ShouldBindJSON(&requestBody): fails on an empty or malformed body
BindFails(body) == body.kind \in {"none", "malformed"}

\* FormatValidationErrors only trims prefixes of the messages
FormatValidationErrors(errors) == errors

\* handlePOST, were the return after the request-validation failure missing:
\* the handler writes the 400 and goes on to the policies
handlePOST_NoReturn(c) ==
    /\ Accepting
    /\ pc[c] = "handler"
    /\ route[c].Method = "POST"
    /\ IF BindFails(req[c].body)
       THEN /\ resp' = [resp EXCEPT ![c] =
                          Response(400, "InvalidJSON", [type |-> "error"], <<>>)]
            /\ written' = [written EXCEPT ![c] = @ + 1]
            /\ pc' = [pc EXCEPT ![c] = "done"]
            /\ UNCHANGED <<requestBody, input, stages>>
       ELSE LET body == req[c].body
                validationResult == ValidateRequest(route[c].RequestSchema, body)
            IN  /\ requestBody' = [requestBody EXCEPT ![c] = body]
                /\ stages' = [stages EXCEPT ![c] = @ \o <<"RequestValidation">>]
                /\ IF ~validationResult.Valid
                   THEN /\ resp' = [resp EXCEPT ![c] =
                                      Response(400, "RequestSchemaViolation",
                                               [type |-> "error"],
                                               FormatValidationErrors(validationResult.Errors))]
                        /\ written' = [written EXCEPT ![c] = @ + 1]
                        /\ pc' = [pc EXCEPT ![c] = "policy"]
                        /\ input' = [input EXCEPT ![c] =
                                        CreatePolicyInput("POST", route[c].RouteName,
                                                          ExtractHeaders(req[c].headers), body)]
                   ELSE /\ input' = [input EXCEPT ![c] =
                                        CreatePolicyInput("POST", route[c].RouteName,
                                                          ExtractHeaders(req[c].headers), body)]
                        /\ pc' = [pc EXCEPT ![c] = "policy"]
                        /\ UNCHANGED <<resp, written>>
    /\ polIdx' = [polIdx EXCEPT ![c] = 1]
    /\ UNCHANGED <<req, route, evaluated, outcomes, policyResult, logs>>
    /\ UNCHANGED loadVars

\* createHandler, case "POST": handlePOST up to the evaluation of the policies
handlePOST(c) ==
    /\ Accepting
    /\ pc[c] = "handler"
    /\ route[c].Method = "POST"
    /\ IF BindFails(req[c].body)
       THEN /\ resp' = [resp EXCEPT ![c] =
                          Response(400, "InvalidJSON", [type |-> "error"], <<>>)]
            /\ written' = [written EXCEPT ![c] = @ + 1]
            /\ pc' = [pc EXCEPT ![c] = "done"]
            /\ UNCHANGED <<requestBody, input, stages>>
       ELSE LET body == req[c].body
                validationResult == ValidateRequest(route[c].RequestSchema, body)
            IN  /\ requestBody' = [requestBody EXCEPT ![c] = body]
                /\ stages' = [stages EXCEPT ![c] = @ \o <<"RequestValidation">>]
                /\ IF ~validationResult.Valid
                   THEN /\ resp' = [resp EXCEPT ![c] =
                                      Response(400, "RequestSchemaViolation",
                                               [type |-> "error"],
                                               FormatValidationErrors(validationResult.Errors))]
                        /\ written' = [written EXCEPT ![c] = @ + 1]
                        /\ pc' = [pc EXCEPT ![c] = "done"]
                        /\ UNCHANGED input
                   ELSE /\ input' = [input EXCEPT ![c] =
                                        CreatePolicyInput("POST", PolicyPath(c),
                                                          ExtractHeaders(req[c].headers), body)]
                        /\ pc' = [pc EXCEPT ![c] = "policy"]
                        /\ UNCHANGED <<resp, written>>
    /\ polIdx' = [polIdx EXCEPT ![c] = 1]
    /\ UNCHANGED <<req, route, evaluated, outcomes, policyResult, logs>>
    /\ UNCHANGED loadVars

\* createHandler, default case
MethodNotAllowed(c) ==
    /\ Accepting
    /\ pc[c] = "handler"
    /\ route[c].Method \notin {"GET", "POST"}
    /\ resp' = [resp EXCEPT ![c] =
                   Response(405, "MethodNotSupported", [type |-> "error"], <<>>)]
    /\ written' = [written EXCEPT ![c] = @ + 1]
    /\ pc' = [pc EXCEPT ![c] = "done"]
    /\ UNCHANGED <<req, route, requestBody, input, polIdx, evaluated, outcomes,
                   policyResult, stages, logs>>
    /\ UNCHANGED loadVars

\* EvaluatePolicies, were a denial to name the first policy of the list
EvaluatePoliciesStep_NamesFirst(pm, policyNames, i, in) ==
    IF Len(policyNames) = 0
    THEN [evaluates |-> <<>>, outcome |-> <<>>, returns |-> TRUE,
          result |-> PolicyResult(TRUE, "", "")]
    ELSE LET policyName == policyNames[i]
             result     == EvaluatePolicy(pm, policyName, in)
         IN  IF ~result.Allowed
             THEN [evaluates |-> <<policyName>>, outcome |-> <<result>>, returns |-> TRUE,
                   result |-> PolicyResult(FALSE, "denied the request", policyNames[1])]
             ELSE IF i < Len(policyNames)
             THEN [evaluates |-> <<policyName>>, outcome |-> <<result>>, returns |-> FALSE,
                   result |-> NoPolicyResult]
             ELSE [evaluates |-> <<policyName>>, outcome |-> <<result>>, returns |-> TRUE,
                   result |-> PolicyResult(TRUE, "", "")]

\* EvaluatePolicies, were the loop to go on after a denial
EvaluatePoliciesStep_NoShortCircuit(pm, policyNames, i, in) ==
    IF Len(policyNames) = 0
    THEN [evaluates |-> <<>>, outcome |-> <<>>, returns |-> TRUE,
          result |-> PolicyResult(TRUE, "", "")]
    ELSE LET policyName == policyNames[i]
             result     == EvaluatePolicy(pm, policyName, in)
         IN  IF i < Len(policyNames)
             THEN [evaluates |-> <<policyName>>, outcome |-> <<result>>, returns |-> FALSE,
                   result |-> NoPolicyResult]
             ELSE IF ~result.Allowed
             THEN [evaluates |-> <<policyName>>, outcome |-> <<result>>, returns |-> TRUE,
                   result |-> PolicyResult(FALSE, "denied the request", policyName)]
             ELSE [evaluates |-> <<policyName>>, outcome |-> <<result>>, returns |-> TRUE,
                   result |-> PolicyResult(TRUE, "", "")]

\* EvaluatePolicies, were an empty list to deny
EvaluatePoliciesStep_EmptyDenies(pm, policyNames, i, in) ==
    IF Len(policyNames) = 0
    THEN [evaluates |-> <<>>, outcome |-> <<>>, returns |-> TRUE,
          result |-> PolicyResult(FALSE, "denied the request", "")]
    ELSE LET policyName == policyNames[i]
             result     == EvaluatePolicy(pm, policyName, in)
         IN  IF ~result.Allowed
             THEN [evaluates |-> <<policyName>>, outcome |-> <<result>>, returns |-> TRUE,
                   result |-> PolicyResult(FALSE, "denied the request", policyName)]
             ELSE IF i < Len(policyNames)
             THEN [evaluates |-> <<policyName>>, outcome |-> <<result>>, returns |-> FALSE,
                   result |-> NoPolicyResult]
             ELSE [evaluates |-> <<policyName>>, outcome |-> <<result>>, returns |-> TRUE,
                   result |-> PolicyResult(TRUE, "", "")]

\* EvaluatePolicies at position i of the list: the policy it evaluates (none
\* for an empty list), what EvaluatePolicy returns for it, whether
\* EvaluatePolicies returns, and the result it returns
EvaluatePoliciesStep(pm, policyNames, i, in) ==
    IF Len(policyNames) = 0
    THEN [evaluates |-> <<>>, outcome |-> <<>>, returns |-> TRUE,
          result |-> PolicyResult(TRUE, "", "")]
    ELSE LET policyName == policyNames[i]
             result     == EvaluatePolicy(pm, policyName, in)
         IN  IF ~result.Allowed
             THEN [evaluates |-> <<policyName>>, outcome |-> <<result>>, returns |-> TRUE,
                   result |-> PolicyResult(FALSE, "denied the request", policyName)]
             ELSE IF i < Len(policyNames)
             THEN [evaluates |-> <<policyName>>, outcome |-> <<result>>, returns |-> FALSE,
                   result |-> NoPolicyResult]
             ELSE [evaluates |-> <<policyName>>, outcome |-> <<result>>, returns |-> TRUE,
                   result |-> PolicyResult(TRUE, "", "")]

\* the policy input, were it kept in a field shared by the handlers: a
\* request reads what another request in flight has stored
RequestInput_Shared(c) ==
    LET others == {d \in Clients : d # c /\ input[d] # NoInput}
    IN  IF others = {} THEN input[c]
        ELSE input[CHOOSE d \in others : TRUE]

\* the policy input of c's request: a local variable of its handler
RequestInput(c) == input[c]

\* the handler's decision, were a result that does not allow reported as an
\* internal error
PolicyGate_DenialIs500(result, err) ==
    IF err \/ ~result.Allowed
    THEN [responds |-> TRUE,
          resp |-> Response(500, "InternalError", [type |-> "error"], <<>>)]
    ELSE [responds |-> FALSE, resp |-> NoResponse]

\* the handler's decision on what EvaluatePolicies returned: 500 on an
\* error, 403 when the result does not allow, otherwise it goes on
PolicyGate(result, err) ==
    IF err
    THEN [responds |-> TRUE,
          resp |-> Response(500, "InternalError", [type |-> "error"], <<>>)]
    ELSE IF ~result.Allowed
    THEN [responds |-> TRUE,
          resp |-> Response(403, "PolicyDenied", [type |-> "error"],
                            <<result.Error>>)]
    ELSE [responds |-> FALSE, resp |-> NoResponse]

\* EvaluatePolicies, were it to add a policy it does not find to the policy
\* map (an entry without a result) while it serves the request
EvaluatePolicies_RegistersMissing(c) ==
    /\ Accepting
    /\ pc[c] = "policy"
    /\ LET step == EvaluatePoliciesStep(policies, route[c].Policies, polIdx[c],
                                        RequestInput(c))
           gate == PolicyGate(step.result, FALSE)
       IN  /\ evaluated' = [evaluated EXCEPT ![c] = @ \o step.evaluates]
           /\ outcomes' = [outcomes EXCEPT ![c] = @ \o step.outcome]
           /\ stages' = [stages EXCEPT ![c] =
                            IF polIdx[c] = 1 THEN @ \o <<"PolicyEvaluation">> ELSE @]
           /\ IF ~step.returns
              THEN /\ polIdx' = [polIdx EXCEPT ![c] = @ + 1]
                   /\ UNCHANGED <<policyResult, resp, written, pc>>
              ELSE /\ policyResult' = [policyResult EXCEPT ![c] = step.result]
                   /\ UNCHANGED polIdx
                   /\ IF gate.responds
                      THEN /\ resp' = [resp EXCEPT ![c] = gate.resp]
                           /\ written' = [written EXCEPT ![c] = @ + 1]
                           /\ pc' = [pc EXCEPT ![c] = "done"]
                      ELSE /\ pc' = [pc EXCEPT ![c] = "produce"]
                           /\ UNCHANGED <<resp, written>>
    /\ policies' =
          LET missing == {n \in Range(route[c].Policies) : n \notin DOMAIN policies}
          IN  [n \in DOMAIN policies \cup missing |->
                  IF n \in missing THEN "undefined" ELSE policies[n]]
    /\ UNCHANGED <<req, route, requestBody, input, logs>>
    /\ UNCHANGED <<policiesDir, configFile, mainpc, fileIdx, loadErr, config,
                   routeIdx, engine>>

\* EvaluatePolicies, were a policy that does not allow to be dropped from
\* the policy map, so that the next evaluation no longer finds it
EvaluatePolicies_ForgetsDenier(c) ==
    /\ Accepting
    /\ pc[c] = "policy"
    /\ LET step == EvaluatePoliciesStep(policies, route[c].Policies, polIdx[c],
                                        RequestInput(c))
           gate == PolicyGate(step.result, FALSE)
       IN  /\ evaluated' = [evaluated EXCEPT ![c] = @ \o step.evaluates]
           /\ outcomes' = [outcomes EXCEPT ![c] = @ \o step.outcome]
           /\ stages' = [stages EXCEPT ![c] =
                            IF polIdx[c] = 1 THEN @ \o <<"PolicyEvaluation">> ELSE @]
           /\ IF ~step.returns
              THEN /\ polIdx' = [polIdx EXCEPT ![c] = @ + 1]
                   /\ UNCHANGED <<policyResult, resp, written, pc>>
              ELSE /\ policyResult' = [policyResult EXCEPT ![c] = step.result]
                   /\ UNCHANGED polIdx
                   /\ IF gate.responds
                      THEN /\ resp' = [resp EXCEPT ![c] = gate.resp]
                           /\ written' = [written EXCEPT ![c] = @ + 1]
                           /\ pc' = [pc EXCEPT ![c] = "done"]
                      ELSE /\ pc' = [pc EXCEPT ![c] = "produce"]
                           /\ UNCHANGED <<resp, written>>
    /\ policies' =
          LET name    == route[c].Policies[polIdx[c]]
              dropped == IF route[c].Policies # <<>> /\
                            ~EvaluatePolicy(policies, name, RequestInput(c)).Allowed
                         THEN {name} ELSE {}
          IN  [n \in DOMAIN policies \ dropped |-> policies[n]]
    /\ UNCHANGED <<req, route, requestBody, input, logs>>
    /\ UNCHANGED <<policiesDir, configFile, mainpc, fileIdx, loadErr, config,
                   routeIdx, engine>>

\* EvaluatePolicies, one policy of the list per step, and the handler's
\* decision on its result; the error EvaluatePolicies returns is always nil
EvaluatePolicies(c) ==
    /\ Accepting
    /\ pc[c] = "policy"
    /\ LET step == EvaluatePoliciesStep(policies, route[c].Policies, polIdx[c],
                                        RequestInput(c))
           gate == PolicyGate(step.result, FALSE)
       IN  /\ evaluated' = [evaluated EXCEPT ![c] = @ \o step.evaluates]
           /\ outcomes' = [outcomes EXCEPT ![c] = @ \o step.outcome]
           /\ stages' = [stages EXCEPT ![c] =
                            IF polIdx[c] = 1 THEN @ \o <<"PolicyEvaluation">> ELSE @]
           /\ IF ~step.returns
              THEN /\ polIdx' = [polIdx EXCEPT ![c] = @ + 1]
                   /\ UNCHANGED <<policyResult, resp, written, pc>>
              ELSE /\ policyResult' = [policyResult EXCEPT ![c] = step.result]
                   /\ UNCHANGED polIdx
                   /\ IF gate.responds
                      THEN /\ resp' = [resp EXCEPT ![c] = gate.resp]
                           /\ written' = [written EXCEPT ![c] = @ + 1]
                           /\ pc' = [pc EXCEPT ![c] = "done"]
                      ELSE /\ pc' = [pc EXCEPT ![c] = "produce"]
                           /\ UNCHANGED <<resp, written>>
    /\ UNCHANGED <<req, route, requestBody, input, logs>>
    /\ UNCHANGED loadVars

\* MockData.GenerateStatusResponse (the timestamp is left out)
GenerateStatusResponse ==
    [type |-> "status", Status |-> "healthy", Version |-> "1.0.0", Uptime |-> 3600]

\* MockData.GenerateTrafficResponse (the id and the timestamp are left out)
GenerateTrafficResponse(serviceID) ==
    [type |-> "traffic", ServiceID |-> serviceID, Status |-> "accepted",
     Message |-> "Traffic request processed successfully"]

ValidateStatusResponse(r) ==
    IF r.Status \in {"healthy", "degraded", "unhealthy"}
    THEN ValidationResult(TRUE, <<>>)
    ELSE ValidationResult(FALSE, << [field |-> "status", rule |-> "enum"] >>)

ValidateTrafficResponse(r) ==
    IF r.Status \in {"accepted", "rejected", "pending"}
    THEN ValidationResult(TRUE, <<>>)
    ELSE ValidationResult(FALSE, << [field |-> "status", rule |-> "enum"] >>)

GenericResponse(r) == [type |-> "generic", route |-> r.RouteName, method |-> r.Method]

NilResponse == [type |-> "nil"]

\* strings.Contains(name, "/services/") && strings.HasSuffix(name, "/traffic")
IsTrafficRoute(name) ==
    /\ \E i \in 1..(Len(name) - 1) : name[i] = "services"
    /\ HasSuffixTraffic(name)

\* the response the handler produces, and whether it validated it:
\* handleGET and handlePOST after the policies allowed
MockResponse(r, path) ==
    IF r.Method = "GET"
    THEN IF r.RouteName = StatusPath
         THEN [response |-> GenerateStatusResponse, validated |-> TRUE,
               validation |-> ValidateStatusResponse(GenerateStatusResponse)]
         ELSE [response |-> GenericResponse(r), validated |-> FALSE,
               validation |-> ValidationResult(TRUE, <<>>)]
    ELSE IF IsTrafficRoute(r.RouteName)
         THEN IF Len(path) + 1 >= 4
              THEN [response |-> GenerateTrafficResponse(path[3]), validated |-> TRUE,
                    validation |-> ValidateTrafficResponse(GenerateTrafficResponse(path[3]))]
              ELSE [response |-> NilResponse, validated |-> FALSE,
                    validation |-> ValidationResult(TRUE, <<>>)]
         ELSE [response |-> GenericResponse(r), validated |-> FALSE,
               validation |-> ValidationResult(TRUE, <<>>)]

\* the verdicts a response validation can give
ResponseVerdicts ==
    {ValidationResult(TRUE, <<>>),
     ValidationResult(FALSE, << [field |-> "status", rule |-> "enum"] >>)}

\* the end of the handler, were a response that fails its validation to be
\* withheld from the caller
FinishHandler_Withholds(m) ==
    IF m.validation.Valid
    THEN [log  |-> <<>>,
          resp |-> Response(200, "Success", m.response, <<>>)]
    ELSE [log  |-> <<"Response validation failed">>,
          resp |-> Response(500, "ResponseSchemaViolation", [type |-> "error"],
                            m.validation.Errors)]

\* the end of the handler: log.Printf when the validation result is not
\* valid, then c.JSON(http.StatusOK, response)
FinishHandler(m) ==
    [log  |-> IF m.validation.Valid THEN <<>>
              ELSE <<"Response validation failed">>,
     resp |-> Response(200, "Success", m.response, <<>>)]

\* the mock response, its validation (logged only) and c.JSON(200, response)
ProduceResponse(c) ==
    /\ Accepting
    /\ pc[c] = "produce"
    /\ LET m == MockResponse(route[c], req[c].path)
           f == FinishHandler(m)
       IN  /\ stages' = [stages EXCEPT ![c] =
                            @ \o (IF m.response.type = "nil" THEN <<>>
                                  ELSE <<"ResponseProduction">>)
                              \o (IF m.validated THEN <<"ResponseValidation">> ELSE <<>>)]
           /\ logs' = [logs EXCEPT ![c] = @ \o f.log]
           /\ resp' = [resp EXCEPT ![c] = f.resp]
           /\ written' = [written EXCEPT ![c] = @ + 1]
    /\ pc' = [pc EXCEPT ![c] = "done"]
    /\ UNCHANGED <<req, route, requestBody, input, polIdx, evaluated, outcomes,
                   policyResult>>
    /\ UNCHANGED loadVars

\* the handler returns: the request's state is dropped
Return(c) ==
    /\ Accepting
    /\ pc[c] = "done"
    /\ pc' = [pc EXCEPT ![c] = "idle"]
    /\ req' = [req EXCEPT ![c] = NoRequest]
    /\ route' = [route EXCEPT ![c] = NoRoute]
    /\ requestBody' = [requestBody EXCEPT ![c] = NilValue]
    /\ input' = [input EXCEPT ![c] = NoInput]
    /\ polIdx' = [polIdx EXCEPT ![c] = 1]
    /\ evaluated' = [evaluated EXCEPT ![c] = <<>>]
    /\ outcomes' = [outcomes EXCEPT ![c] = <<>>]
    /\ policyResult' = [policyResult EXCEPT ![c] = NoPolicyResult]
    /\ stages' = [stages EXCEPT ![c] = <<>>]
    /\ resp' = [resp EXCEPT ![c] = NoResponse]
    /\ written' = [written EXCEPT ![c] = 0]
    /\ logs' = [logs EXCEPT ![c] = <<>>]
    /\ UNCHANGED loadVars

----------------------------------------------------------------------------
(* The server *)

Main ==
    \/ LoadPolicies
    \/ LoadConfig
    \/ SetupRouter
    \/ RegisterRoutes
    \/ RegisterInfo
    \/ Run

Serve(c) ==
    \/ \E r \in Requests : ServeHTTP(c, r)
    \/ handleGET(c)
    \/ handlePOST(c)
    \/ MethodNotAllowed(c)
    \/ EvaluatePolicies(c)
    \/ ProduceResponse(c)
    \/ Return(c)

Next == Main \/ \E c \in Sequential : Serve(c)

Spec == Init /\ [][Next]_vars

----------------------------------------------------------------------------
(* The server on configurations with several routes *)

\* the routes such a configuration is made of: two with the same method and
\* name, a POST route, a PUT route, one with an unsupported method, and a
\* status route whose responseSchema is one the status response does not
\* satisfy
RoutePool ==
    { RouteConfig(StatusPath, "GET", SchemaNil, SchemaNil, <<"status_policy">>),
      RouteConfig(StatusPath, "GET", SchemaNil, SchemaTraffic, <<"status_policy">>),
      RouteConfig(StatusPath, "GET", SchemaNil, SchemaNil, <<>>),
      RouteConfig(TrafficTemplate, "POST", SchemaTraffic, SchemaNil,
                  <<"traffic_policy">>),
      RouteConfig(StatusPath, "PUT", SchemaNil, SchemaNil, <<>>),
      RouteConfig(StatusPath, "PATCH", SchemaNil, SchemaNil, <<>>) }

RouteLists == SeqsUpTo(RoutePool, MaxRoutes)

LoadInit ==
    InitWith({[readable |-> TRUE, files |-> Listing("absent", "traffic")]},
             {[ok |-> TRUE, routes |-> s] : s \in RouteLists})

\* the requests, and one with the method of the route that is not registered
LoadRequests ==
    Requests \cup [method : {"PATCH"}, path : {StatusPath},
                   headers : {HeadersNone}, body : {BodyNone}]

LoadServe(c) ==
    \/ \E r \in LoadRequests : ServeHTTP(c, r)
    \/ handleGET(c)
    \/ handlePOST(c)
    \/ MethodNotAllowed(c)
    \/ EvaluatePolicies(c)
    \/ ProduceResponse(c)
    \/ Return(c)

LoadNext == Main \/ \E c \in Sequential : LoadServe(c)

LoadSpec == LoadInit /\ [][LoadNext]_vars

----------------------------------------------------------------------------
(* The server on POST routes, with every kind of body *)

TrafficPathB  == <<"v1", "services", "service456", "traffic">>
ShortTemplate == <<"services", "traffic">>

\* the routes of config/routes.json, a traffic-shaped route one level below
\* the root, and a PUT route
BodyConfig(trafficSchema, trafficPolicies) ==
    [ok |-> TRUE,
     routes |-> << RouteConfig(StatusPath, "GET", SchemaNil, SchemaNil,
                               <<"status_policy">>),
                   RouteConfig(TrafficTemplate, "POST", trafficSchema, SchemaNil,
                               trafficPolicies),
                   RouteConfig(ShortTemplate, "POST", SchemaNil, SchemaNil, <<>>),
                   RouteConfig(StatusPath, "PUT", SchemaNil, SchemaNil, <<>>) >>]

BodyConfigs ==
    {BodyConfig(SchemaNil, <<"traffic_policy">>),
     BodyConfig(SchemaNil, <<"status_policy">>),
     BodyConfig(SchemaEmpty, <<>>),
     BodyConfig(SchemaTraffic, <<"traffic_policy">>)}

PostBodies == Bodies \cup {BodyTextVolume, BodyString, BodyNumber, BodyBool}

BodyRequests ==
    [method : {"POST"}, path : {TrafficPath, ShortTemplate},
     headers : HeaderSets, body : PostBodies]
    \cup [method : {"GET", "PUT"}, path : {StatusPath, UnknownPath},
          headers : StatusHeaderSets, body : {BodyNone}]

BodyInit ==
    InitWith({[readable |-> TRUE, files |-> Listing("absent", "traffic")]},
             BodyConfigs)

BodyServe(c) ==
    \/ \E r \in BodyRequests : ServeHTTP(c, r)
    \/ handleGET(c)
    \/ handlePOST(c)
    \/ MethodNotAllowed(c)
    \/ EvaluatePolicies(c)
    \/ ProduceResponse(c)
    \/ Return(c)

BodyNext == Main \/ \E c \in Sequential : BodyServe(c)

BodySpec == BodyInit /\ [][BodyNext]_vars

----------------------------------------------------------------------------
(* Two requests in flight for two services *)

Pair == {1, 2}

\* requests for the traffic of two services, and the status requests
PathRequests ==
    [method : {"POST"}, path : {TrafficPath, TrafficPathB},
     headers : HeaderSets, body : {BodyValid, BodyPartial, BodyNone}]
    \cup [method : {"GET", "PUT"}, path : {StatusPath},
          headers : {HeadersNone}, body : {BodyNone}]

PathInit ==
    InitWith({[readable |-> TRUE, files |-> Listing("absent", "traffic")]},
             {BodyConfig(SchemaNil, <<"traffic_policy">>),
              BodyConfig(SchemaTraffic, <<"service_policy", "traffic_policy">>)})

PathServe(c) ==
    \/ \E r \in PathRequests : ServeHTTP(c, r)
    \/ handleGET(c)
    \/ handlePOST(c)
    \/ MethodNotAllowed(c)
    \/ EvaluatePolicies(c)
    \/ ProduceResponse(c)
    \/ Return(c)

PathNext == Main \/ \E c \in Pair : PathServe(c)

PathSpec == PathInit /\ [][PathNext]_vars

----------------------------------------------------------------------------
(* The server with several requests in flight *)

\* a configuration with the two routes of config/routes.json and a PUT route
ConcConfig(trafficSchema, trafficPolicies) ==
    [ok |-> TRUE,
     routes |-> << RouteConfig(StatusPath, "GET", SchemaNil, SchemaNil,
                               <<"status_policy">>),
                   RouteConfig(TrafficTemplate, "POST", trafficSchema, SchemaNil,
                               trafficPolicies),
                   RouteConfig(StatusPath, "PUT", SchemaNil, SchemaNil, <<>>) >>]

ConcConfigs ==
    {ConcConfig(SchemaNil, <<"traffic_policy">>),
     ConcConfig(SchemaTraffic, <<"service_policy", "traffic_policy">>)}

\* the policies directory, with traffic_policy.rego sound or broken
ConcDirectories ==
    {[readable |-> TRUE, files |-> Listing("absent", t)] :
        t \in {"traffic", "syntaxerror"}}

\* the requests the concurrent clients send
ConcRequests ==
    {r \in Requests :
        <<r.method, r.path, r.body>> \in
            { <<"GET",  StatusPath,  BodyNone>>,
              <<"POST", TrafficPath, BodyValid>>,
              <<"POST", TrafficPath, BodyPartial>>,
              <<"POST", TrafficPath, BodyInvalid>>,
              <<"POST", TrafficPath, BodyNone>>,
              <<"PUT",  StatusPath,  BodyNone>>,
              <<"GET",  UnknownPath, BodyNone>> }}

ConcInit == InitWith(ConcDirectories, ConcConfigs)

ConcServe(c) ==
    \/ \E r \in ConcRequests : ServeHTTP(c, r)
    \/ handleGET(c)
    \/ handlePOST(c)
    \/ MethodNotAllowed(c)
    \/ EvaluatePolicies(c)
    \/ ProduceResponse(c)
    \/ Return(c)

ConcNext == Main \/ \E c \in Clients : ConcServe(c)

\* every client is served on its own goroutine, in any interleaving
ConcSpec == ConcInit /\ [][ConcNext]_vars

----------------------------------------------------------------------------
(* Properties of the policy engine *)

\* the request of client c was resolved to a configured route
Resolved(c) == route[c] # NoRoute

\* EvaluatePolicies has returned for the request of client c
PolicyReturned(c) == policyResult[c] # NoPolicyResult

\* the individual decision of the i-th policy of c's route on c's input
AllowsAlone(c, i) ==
    EvaluatePolicy(policies, route[c].Policies[i], input[c]).Allowed

\* the positions of c's policy list whose policy does not allow alone
Deniers(c) == {i \in 1..Len(route[c].Policies) : ~AllowsAlone(c, i)}

\* C1 (conjunction law): for a non-empty policy list, EvaluatePolicies
\* allows iff every named policy allows when evaluated alone, and when it
\* denies, the policy it names is the first one of the list that does not
\* allow alone.
C1_ConjunctionLaw ==
    \A c \in Clients :
        (PolicyReturned(c) /\ Len(route[c].Policies) > 0) =>
            /\ policyResult[c].Allowed <=> (Deniers(c) = {})
            /\ ~policyResult[c].Allowed =>
                  /\ Deniers(c) # {}
                  /\ policyResult[c].Error.policy =
                        route[c].Policies[CHOOSE i \in Deniers(c) :
                                             \A j \in Deniers(c) : i <= j]

\* a two-policy list whose first policy allows and whose second denies
C1_Witness ==
    \E c \in Clients :
        /\ PolicyReturned(c)
        /\ Len(route[c].Policies) = 2
        /\ Deniers(c) = {2}
        /\ ~policyResult[c].Allowed
        /\ resp[c].status = 403

\* the policy names of c's route that the policy map does not hold
Unregistered(c) ==
    {i \in 1..Len(route[c].Policies) : route[c].Policies[i] \notin DOMAIN policies}

\* C2 (fail-closed law): when a name of the route's policy list is not
\* registered, whatever its position, EvaluatePolicies never allows and the
\* request never gets a response produced nor a 200.
C2_FailClosed ==
    \A c \in Clients :
        (Resolved(c) /\ Unregistered(c) # {}) =>
            /\ PolicyReturned(c) => ~policyResult[c].Allowed
            /\ pc[c] # "produce"
            /\ resp[c].status # 200
            /\ "ResponseProduction" \notin Range(stages[c])

\* the unregistered name is the second of the list, the first policy allowed
\* and the request was denied
C2_Witness ==
    \E c \in Clients :
        /\ Len(route[c].Policies) = 2
        /\ Unregistered(c) = {2}
        /\ evaluated[c] = route[c].Policies
        /\ PolicyReturned(c)
        /\ resp[c].status = 403

\* the engine's answer for policy n on c's input is the boolean true
DefinitiveTrue(c, n) ==
    /\ n \in DOMAIN policies
    /\ LET r == RegoEval(policies[n], input[c])
       IN  /\ ~r.err
           /\ Len(r.results) > 0
           /\ r.results[1].isBool
           /\ r.results[1].bool

\* the engine's answer for policy n on c's input is the boolean false
DefinitiveFalse(c, n) ==
    /\ n \in DOMAIN policies
    /\ LET r == RegoEval(policies[n], input[c])
       IN  /\ ~r.err
           /\ Len(r.results) > 0
           /\ r.results[1].isBool
           /\ ~r.results[1].bool

\* C3: EvaluatePolicy allows only on a definitive true of a registered
\* policy; in every other case it denies, and when the denial is not a
\* definitive false (not registered, engine error, no result, non-boolean
\* result) the outcome carries a non-empty error message.  A request for
\* which a policy was evaluated without a definitive true ends with 403.
C3_NeverDefaultsToAllow ==
    \A c \in Clients :
        input[c] # NoInput =>
            \A n \in PolicyNames :
                LET r == EvaluatePolicy(policies, n, input[c])
                IN  /\ r.Allowed <=> DefinitiveTrue(c, n)
                    /\ (~DefinitiveTrue(c, n) /\ ~DefinitiveFalse(c, n)) =>
                          (~r.Allowed /\ r.Error.msg # "")
                    /\ (n \in Range(evaluated[c]) /\ ~DefinitiveTrue(c, n)) =>
                          (pc[c] = "done" /\ resp[c].status = 403)

\* a request was denied because the policy evaluated last gave a result
\* that is not a boolean
C3_Witness ==
    \E c \in Clients :
        /\ PolicyReturned(c)
        /\ evaluated[c] # <<>>
        /\ LET n == evaluated[c][Len(evaluated[c])]
           IN  /\ n \in DOMAIN policies
               /\ policies[n] = "nonbool"
        /\ resp[c].status = 403

\* C4 (short-circuit ordering): the policies evaluated for a request are a
\* prefix of the route's list, in list order; every evaluated policy but the
\* last allowed; after a denial nothing more is evaluated and the denial
\* names the policy evaluated last.
C4_ShortCircuit ==
    \A c \in Clients :
        LET ev    == evaluated[c]
            names == route[c].Policies
        IN  /\ Len(ev) <= Len(names)
            /\ \A i \in 1..Len(ev) :
                  /\ ev[i] = names[i]
                  /\ i < Len(ev) => AllowsAlone(c, i)
            /\ (PolicyReturned(c) /\ ~policyResult[c].Allowed) =>
                  /\ ev # <<>>
                  /\ ~AllowsAlone(c, Len(ev))
                  /\ policyResult[c].Error.policy = ev[Len(ev)]

\* scenario D: the list is [traffic_policy, service_policy], traffic_policy
\* denies, and only traffic_policy was evaluated
C4_Witness ==
    \E c \in Clients :
        /\ route[c].Policies = <<"traffic_policy", "service_policy">>
        /\ pc[c] = "done"
        /\ evaluated[c] = <<"traffic_policy">>
        /\ "traffic_policy" \in DOMAIN policies
        /\ policyResult[c] = PolicyResult(FALSE, "denied the request", "traffic_policy")
        /\ resp[c].status = 403

----------------------------------------------------------------------------
(* Properties of the pipeline *)

StageOrder == <<"RouteLookup", "RequestValidation", "PolicyEvaluation",
                "ResponseProduction", "ResponseValidation">>

StageRank(st) == CHOOSE i \in 1..Len(StageOrder) : StageOrder[i] = st

Ran(c, st) == st \in Range(stages[c])

\* the route's request schema constrains nothing
NoRequestSchema(c) == route[c].RequestSchema.kind \in {"nil", "empty"}

\* C5: the stages of a request run in the order RouteLookup,
\* RequestValidation, PolicyEvaluation, ResponseProduction,
\* ResponseValidation, on every route whatever its method: policy evaluation
\* starts only after the request was validated against the route's request
\* schema (an empty schema counts as validated), a response is produced
\* only after the policies allowed, and a successful request skipped no
\* stage.
C5_StagesInOrder ==
    \A c \in Clients :
        /\ \A i, j \in DOMAIN stages[c] :
              i < j => StageRank(stages[c][i]) < StageRank(stages[c][j])
        /\ Ran(c, "PolicyEvaluation") =>
              (Ran(c, "RequestValidation") \/ NoRequestSchema(c))
        /\ Ran(c, "ResponseProduction") =>
              (PolicyReturned(c) /\ policyResult[c].Allowed)
        /\ (Resolved(c) /\ resp[c].status = 200) =>
              /\ Ran(c, "PolicyEvaluation")
              /\ Ran(c, "ResponseProduction")
              /\ Ran(c, "ResponseValidation")

\* the request carries a JSON value that the route's request schema rejects
BodyViolatesSchema(c) ==
    /\ Resolved(c)
    /\ ~NoRequestSchema(c)
    /\ ~BindFails(req[c].body)
    /\ ~ValidateRequest(route[c].RequestSchema, req[c].body).Valid

\* C6: a request whose body violates the route's non-empty request schema
\* ends with 400 RequestSchemaViolation and a non-empty errors list; none of
\* the route's policies is evaluated and no response is produced.
C6_ValidationPrecedesPolicy ==
    \A c \in Clients :
        BodyViolatesSchema(c) =>
            /\ evaluated[c] = <<>>
            /\ pc[c] \notin {"policy", "produce"}
            /\ ~Ran(c, "PolicyEvaluation")
            /\ ~Ran(c, "ResponseProduction")
            /\ pc[c] = "done" =>
                  /\ resp[c].status = 400
                  /\ resp[c].kind = "RequestSchemaViolation"
                  /\ resp[c].errors # <<>>

\* C7: on a route with an empty policy list the policy stage always
\* succeeds: EvaluatePolicies allows with no error whatever the input and
\* whatever the registered policies, and evaluates no policy.
C7_EmptyListAllows ==
    \A c \in Clients :
        (Resolved(c) /\ route[c].Policies = <<>>) =>
            /\ evaluated[c] = <<>>
            /\ resp[c].status # 403
            /\ PolicyReturned(c) =>
                  policyResult[c] = [Allowed |-> TRUE, Error |-> NoError]
            /\ Ran(c, "PolicyEvaluation") =>
                  (PolicyReturned(c) /\ pc[c] \in {"produce", "done"})

\* a route without policies passed the policy stage while no policy at all
\* is registered
C7_Witness ==
    \E c \in Clients :
        /\ Resolved(c)
        /\ route[c].Policies = <<>>
        /\ DOMAIN policies = {}
        /\ Ran(c, "PolicyEvaluation")
        /\ policyResult[c].Allowed
        /\ pc[c] = "produce"

\* C8: on a route whose request schema is empty or absent the request
\* validation always succeeds: ValidateRequest answers valid with no errors
\* for every value, the absent one included, and the request never ends
\* with a request-validation failure.
C8_EmptySchemaValid ==
    \A c \in Clients :
        (Resolved(c) /\ NoRequestSchema(c)) =>
            /\ resp[c].kind # "RequestSchemaViolation"
            /\ Ran(c, "RequestValidation") =>
                  (pc[c] \in {"policy", "produce", "done"} /\ resp[c].status # 400)

\* a POST with the JSON value null on a route whose request schema is absent
\* passed the request validation
C8_Witness ==
    \E c \in Clients :
        /\ Resolved(c)
        /\ route[c].RequestSchema = SchemaNil
        /\ req[c].body = BodyNull
        /\ Ran(c, "RequestValidation")
        /\ pc[c] = "policy"

\* no handler is registered for the method and path of c's request
NoRouteMatches(c) ==
    /\ req[c] # NoRequest
    /\ ~\E e \in engine :
          e.method = req[c].method /\ PathMatches(e.path, req[c].path)

WrongMethod(c) ==
    /\ NoRouteMatches(c)
    /\ \E e \in engine :
          e.handler.kind = "route" /\ PathMatches(e.path, req[c].path)

\* C10: a request on the path of a registered route with a method that is
\* not registered for that path ends with 405 MethodNotSupported, not 404.
C10_WrongMethodIs405 ==
    \A c \in Clients :
        (WrongMethod(c) /\ pc[c] = "done") =>
            /\ resp[c].status = 405
            /\ resp[c].kind = "MethodNotSupported"

----------------------------------------------------------------------------
(* Properties of the outcomes *)

\* C11: ResponseValidation is advisory.  Once the route is resolved, the
\* request is valid and the policies allow, the handler answers 200 with the
\* response it produced, whatever verdict the response validation gives: a
\* failed validation only adds a log entry, it changes neither the status
\* nor the returned value.
C11_ResponseValidationAdvisory ==
    \A c \in Clients :
        /\ pc[c] = "produce" =>
              LET m == MockResponse(route[c], req[c].path)
              IN  \A v \in ResponseVerdicts :
                      LET f == FinishHandler([m EXCEPT !.validation = v])
                      IN  /\ f.resp = Response(200, "Success", m.response, <<>>)
                          /\ (f.log # <<>>) <=> ~v.Valid
        /\ (pc[c] = "done" /\ PolicyReturned(c) /\ policyResult[c].Allowed) =>
              /\ resp[c] = Response(200, "Success",
                                    MockResponse(route[c], req[c].path).response, <<>>)
              /\ (logs[c] # <<>>) <=>
                    ~MockResponse(route[c], req[c].path).validation.Valid

\* a traffic request was answered 200 with the traffic response after the
\* response validation ran
C11_Witness ==
    \E c \in Clients :
        /\ pc[c] = "done"
        /\ Ran(c, "ResponseValidation")
        /\ policyResult[c].Allowed
        /\ resp[c].status = 200
        /\ resp[c].body = GenerateTrafficResponse("service123")

\* the handler of c's request is running and has not answered yet
InFlight(c) == pc[c] \in {"handler", "policy", "produce"}

\* the terminal outcomes the pipeline writes
OutcomeKinds == {"RouteNotFound", "MethodNotSupported", "InvalidJSON",
                 "RequestSchemaViolation", "PolicyDenied", "Success",
                 "health", "info"}

\* at most one response is written; none while the handler runs, exactly
\* one, with a status and a body, once it is done
OneResponse(c) ==
    /\ written[c] <= 1
    /\ pc[c] = "idle" => (written[c] = 0 /\ resp[c] = NoResponse)
    /\ InFlight(c) => (written[c] = 0 /\ resp[c] = NoResponse)
    /\ pc[c] = "done" =>
          /\ written[c] = 1
          /\ resp[c].status \in {200, 400, 403, 404, 405}
          /\ resp[c].kind \in OutcomeKinds
          /\ "type" \in DOMAIN resp[c].body

\* once the response is written nothing of the request changes until the
\* handler returns: no later stage runs, no policy is evaluated, no second
\* response is written
OutcomeIsFinal(c) ==
    pc[c] = "done" =>
        \/ /\ pc'[c] = "done"
           /\ resp'[c] = resp[c]
           /\ written'[c] = written[c]
           /\ stages'[c] = stages[c]
           /\ evaluated'[c] = evaluated[c]
           /\ logs'[c] = logs[c]
        \/ pc'[c] = "idle"

\* an upper bound of the steps the handler of c's request still takes
StepsLeft(c) ==
    CASE pc[c] = "handler" -> Len(route[c].Policies) + 4
      [] pc[c] = "policy"  -> Len(route[c].Policies) + 3 - polIdx[c]
      [] pc[c] = "produce" -> 1
      [] OTHER             -> 0

\* the handler can always take a step, and each of its steps brings it
\* closer to the end
HandlerProgresses(c) ==
    (InFlight(c) /\ <<pc[c], polIdx[c]>>' # <<pc[c], polIdx[c]>>) =>
        /\ pc'[c] \in {"policy", "produce", "done"}
        /\ StepsLeft(c)' < StepsLeft(c)

\* C12: every request reaches exactly one terminal outcome.  The handler
\* always terminates (while it runs it has a step to take, and the number of
\* steps it has left decreases with each one); it writes exactly one
\* response (one status and one body) on every path; once an outcome is
\* written no later stage runs and no second response is written.
C12_OneTerminalOutcome ==
    /\ [](\A c \in Clients : OneResponse(c))
    /\ [](\A c \in Clients : InFlight(c) => ENABLED Serve(c))
    /\ [][\A c \in Clients : HandlerProgresses(c)]_vars
    /\ [][\A c \in Clients : OutcomeIsFinal(c)]_vars

\* a request that failed the request validation was answered once, with
\* neither a policy evaluated nor a response produced
C12_Witness ==
    \E c \in Clients :
        /\ pc[c] = "done"
        /\ resp[c].kind = "RequestSchemaViolation"
        /\ written[c] = 1
        /\ stages[c] = <<"RouteLookup", "RequestValidation">>
        /\ evaluated[c] = <<>>

\* the policy evaluated last for c's request failed to evaluate: it is not
\* registered, the engine raised an error, or the result is absent or not a
\* boolean
EvaluationFailed(c) ==
    /\ evaluated[c] # <<>>
    /\ LET n == evaluated[c][Len(evaluated[c])]
       IN  ~DefinitiveTrue(c, n) /\ ~DefinitiveFalse(c, n)

\* C13 (status mapping): a request-schema violation yields 400; a policy
\* denial and a failure of policy evaluation (unregistered policy, engine
\* error, absent or non-boolean result) both yield 403; success yields 200.
\* A failure of policy evaluation never yields 500 nor 200, and no request
\* is answered 500.
C13_StatusMapping ==
    \A c \in Clients :
        /\ resp[c].status # 500
        /\ (Ran(c, "RequestValidation") /\
              ~ValidateRequest(route[c].RequestSchema, req[c].body).Valid) =>
                 (pc[c] = "done" /\ resp[c].status = 400)
        /\ resp[c].kind = "RequestSchemaViolation" => resp[c].status = 400
        /\ (PolicyReturned(c) /\ ~policyResult[c].Allowed) =>
              (pc[c] = "done" /\ resp[c].status = 403)
        /\ EvaluationFailed(c) =>
              (pc[c] = "done" /\ resp[c].status = 403 /\ resp[c].kind = "PolicyDenied")
        /\ (pc[c] = "done" /\ PolicyReturned(c) /\ policyResult[c].Allowed) =>
              (resp[c].status = 200 /\ resp[c].kind = "Success")
        /\ (pc[c] = "done" /\ Resolved(c) /\ resp[c].status = 200) =>
              (PolicyReturned(c) /\ policyResult[c].Allowed)

\* a request whose policy raised an engine error was answered 403
C13_Witness ==
    \E c \in Clients :
        /\ pc[c] = "done"
        /\ EvaluationFailed(c)
        /\ evaluated[c] = <<"audit_policy">>
        /\ "audit_policy" \in DOMAIN policies
        /\ policies["audit_policy"] = "evalerror"
        /\ resp[c].status = 403

\* C14: the outcome of the PolicyEvaluation stage tells a denial from a
\* failure of evaluation.  When the policy evaluated last gave a definitive
\* false, the outcome EvaluatePolicies returns is the denial naming that
\* policy; when it was not found, raised an engine error or gave an absent
\* or non-boolean result, the outcome carries the diagnostic EvaluatePolicy
\* gave for it and is not the denial.
C14_DistinguishesEvaluationError ==
    \A c \in Clients :
        (PolicyReturned(c) /\ ~policyResult[c].Allowed) =>
            LET n == evaluated[c][Len(evaluated[c])]
            IN  /\ DefinitiveFalse(c, n) =>
                      policyResult[c] = PolicyResult(FALSE, "denied the request", n)
                /\ EvaluationFailed(c) =>
                      /\ policyResult[c].Error.msg =
                            EvaluatePolicy(policies, n, input[c]).Error.msg
                      /\ policyResult[c] # PolicyResult(FALSE, "denied the request", n)

----------------------------------------------------------------------------
(* Properties of the load phase *)

\* the directory entries LoadPolicies hands to loadPolicy
PolicyFiles ==
    {f \in Range(policiesDir.files) : ~f.isDir /\ f.ext = ".rego"}

\* the file can be read and compiles
Compiles(f) == f.source \notin {"unreadable", "syntaxerror"}

\* the policy names whose file failed to load
Skipped == {f.base : f \in {g \in PolicyFiles : ~Compiles(g)}}

\* LoadPolicies has returned
PoliciesLoaded == mainpc # "load_policies"

\* C15 (partial-availability load): when some policy files of a readable
\* directory fail to read or to compile, LoadPolicies goes through all the
\* entries and returns no error; the registered policies are then exactly
\* the files that compiled, under their name without the .rego suffix; and no
\* request on a route that names a skipped policy is ever allowed: the
\* policy stage denies it with 403 whenever it is reached.
C15_PartialLoad ==
    /\ DOMAIN policies \subseteq {f.base : f \in {g \in PolicyFiles : Compiles(g)}}
    /\ (PoliciesLoaded /\ policiesDir.readable) =>
          /\ loadErr = ""
          /\ fileIdx = Len(policiesDir.files) + 1
          /\ DOMAIN policies = {f.base : f \in {g \in PolicyFiles : Compiles(g)}}
          /\ \A f \in PolicyFiles : Compiles(f) => policies[f.base] = f.source
    /\ \A c \in Clients :
          (Resolved(c) /\ Range(route[c].Policies) \cap Skipped # {}) =>
              /\ resp[c].status # 200
              /\ pc[c] # "produce"
              /\ PolicyReturned(c) => ~policyResult[c].Allowed
              /\ (pc[c] = "done" /\ Ran(c, "PolicyEvaluation")) => resp[c].status = 403

\* the first policy file of the directory failed to compile, the later ones
\* were loaded, and a request on a route that names the skipped policy after
\* a policy that allows was denied
C15_Witness ==
    \E c \in Clients :
        /\ Skipped = {"audit_policy"}
        /\ loadErr = ""
        /\ DOMAIN policies = {"service_policy", "status_policy", "traffic_policy"}
        /\ route[c].Policies = <<"service_policy", "audit_policy">>
        /\ evaluated[c] = route[c].Policies
        /\ pc[c] = "done"
        /\ resp[c].status = 403

\* LoadPolicies, LoadConfig and RegisterRoutes have returned without a
\* fatal error
LoadComplete ==
    /\ mainpc \in {"register_info", "run", "serving"}
    /\ ~policiesDir.readable \/ fileIdx = Len(policiesDir.files) + 1
    /\ config.loaded
    /\ config.Routes = configFile.routes
    /\ routeIdx = Len(config.Routes) + 1

\* no request is being served and none has been
NothingServed ==
    \A c \in Clients : pc[c] = "idle" /\ req[c] = NoRequest /\ resp[c] = NoResponse

\* a step that writes the policy map, the route configuration or the routing
\* table is taken while nothing is served
WritesAreBeforeServing ==
    <<policies, config, engine, fileIdx, routeIdx>>' #
        <<policies, config, engine, fileIdx, routeIdx>>
            => (NothingServed /\ NothingServed')

\* C16 (load barrier): the load phase (LoadPolicies, LoadConfig,
\* RegisterRoutes) completes before the server accepts a request; no handler
\* runs while the policy map or the route configuration is being written;
\* when the route configuration fails to load, no request is ever served.
C16_LoadBarrier ==
    /\ [](~NothingServed => (LoadComplete /\ mainpc = "serving"))
    /\ [](~configFile.ok => (NothingServed /\ ~Accepting))
    /\ [](mainpc \in {"fatal", "panic"} => NothingServed)
    /\ [][WritesAreBeforeServing]_vars

\* a request is in the policy stage, after a load that registered policies
\* and a route
C16_Witness ==
    \E c \in Clients :
        /\ pc[c] = "policy"
        /\ LoadComplete
        /\ DOMAIN policies # {}
        /\ Len(config.Routes) = 1
        /\ \E e \in engine : e.handler.kind = "route"

\* the routes of the routing table, as registered
RegisteredRoutes == {e.handler.route : e \in {x \in engine : x.handler.kind = "route"}}

\* C17 (immutability after load): once the server accepts requests, no step
\* of a request (createHandler, handleGET, handlePOST, ValidateRequest,
\* EvaluatePolicy, EvaluatePolicies, CreatePolicyInput) changes the set of
\* registered policies, the route configuration or the routing table; the
\* route a handler works with, schemas and policy list included, is a route
\* of the configuration as it was loaded.
C17_ImmutableAfterLoad ==
    /\ [][Accepting => (<<policies, config, engine, policiesDir, configFile>>' =
                           <<policies, config, engine, policiesDir, configFile>>)]_vars
    /\ [](Accepting =>
            /\ config.Routes = configFile.routes
            /\ RegisteredRoutes \subseteq Range(config.Routes)
            /\ \A n \in DOMAIN policies :
                  \E f \in PolicyFiles : f.base = n /\ f.source = policies[n]
            /\ \A c \in Clients :
                  Resolved(c) => (route[c] \in Range(config.Routes)
                                  /\ route[c] \in RegisteredRoutes))

\* a request on a route of the configuration, with a request schema and two
\* policies of which one is not registered, went through the pipeline and was
\* denied
C17_Witness ==
    \E c \in Clients :
        /\ pc[c] = "done"
        /\ resp[c].status = 403
        /\ route[c].RequestSchema = SchemaTraffic
        /\ Len(route[c].Policies) = 2
        /\ Unregistered(c) # {}
        /\ route[c] \in Range(config.Routes)

----------------------------------------------------------------------------
(* Properties of concurrent requests *)

RECURSIVE RunPolicies(_, _, _, _)
\* EvaluatePolicies run to its return, from position i of the list
RunPolicies(pm, policyNames, i, in) ==
    LET step == EvaluatePoliciesStep(pm, policyNames, i, in)
    IN  IF step.returns THEN step.result
        ELSE RunPolicies(pm, policyNames, i + 1, in)

\* the response request r gets when it is handled alone, from the dispatch
\* to the end of its handler, against routing table eng and policy map pm
HandledAlone(eng, pm, r) ==
    LET found == Lookup(eng, r.method, r.path)
        h     == (CHOOSE e \in found : TRUE).handler
        rt    == h.route
        body  == IF rt.Method = "GET" THEN NilValue ELSE r.body
        in    == CreatePolicyInput(rt.Method, rt.RouteName,
                                   ExtractHeaders(r.headers), body)
        gate  == PolicyGate(RunPolicies(pm, rt.Policies, 1, in), FALSE)
    IN  IF found = {}
        THEN Response(404, "RouteNotFound", [type |-> "error"], <<>>)
        ELSE IF h.kind # "route"
        THEN Response(200, h.kind, [type |-> h.kind], <<>>)
        ELSE IF rt.Method \notin {"GET", "POST"}
        THEN Response(405, "MethodNotSupported", [type |-> "error"], <<>>)
        ELSE IF rt.Method = "POST" /\ BindFails(r.body)
        THEN Response(400, "InvalidJSON", [type |-> "error"], <<>>)
        ELSE IF rt.Method = "POST" /\ ~ValidateRequest(rt.RequestSchema, r.body).Valid
        THEN Response(400, "RequestSchemaViolation", [type |-> "error"],
                      FormatValidationErrors(
                          ValidateRequest(rt.RequestSchema, r.body).Errors))
        ELSE IF gate.responds
        THEN gate.resp
        ELSE FinishHandler(MockResponse(rt, r.path)).resp

\* what belongs to the request of client c
Locals(c) ==
    <<pc[c], req[c], route[c], requestBody[c], input[c], polIdx[c],
      evaluated[c], outcomes[c], policyResult[c], stages[c], resp[c], written[c], logs[c]>>

\* a step of one request leaves what belongs to the other requests alone
StepIsLocal ==
    \A c, d \in Clients :
        (c # d /\ Locals(c)' # Locals(c)) => Locals(d)' = Locals(d)

\* C18: requests handled at the same time do not interfere.  In every
\* interleaving of the steps of the requests in flight, the response each
\* request ends with (status, failure kind and body) is the one it gets
\* when handled alone against the same routes and policies; a step of one
\* request changes nothing that belongs to another request, and nothing of
\* the loaded routes and policies.
C18_NoInterference ==
    /\ [](\A c \in Clients :
             pc[c] = "done" => resp[c] = HandledAlone(engine, policies, req[c]))
    /\ [][StepIsLocal]_vars
    /\ [][Accepting => (<<policies, config, engine>>' = <<policies, config, engine>>)]_vars

\* two requests on the same route were in flight together: one was denied
\* by the policy that is about to allow the other
C18_Witness ==
    \E c, d \in Clients :
        /\ c # d
        /\ route[c] = route[d]
        /\ route[c].Policies = <<"traffic_policy">>
        /\ pc[c] = "done"
        /\ resp[c].status = 403
        /\ pc[d] = "policy"
        /\ req[d].body = BodyValid
        /\ EvaluatePolicy(policies, "traffic_policy", input[d]).Allowed

----------------------------------------------------------------------------
(* Properties of the route registry *)

\* the configured routes that registerRoute hands to the router
Registrable(routes) ==
    {i \in DOMAIN routes : routes[i].Method \in SupportedMethods}

\* two of them have the same method and route name
HasDuplicate(routes) ==
    \E i, j \in Registrable(routes) :
        /\ i < j
        /\ routes[i].Method = routes[j].Method
        /\ routes[i].RouteName = routes[j].RouteName

\* RegisterRoutes has returned
RoutesRegistered == mainpc \in {"register_info", "run", "serving"}

\* C20: route identity is unique in a loaded registry.  The routing table
\* never holds two routes with the same (method, routeName); a configuration
\* with a duplicate is rejected at load time (the registration of the second
\* one stops main, and no request is ever served), and when the load
\* completes the registered routes are exactly the configured routes with a
\* supported method.
C20_RouteIdentityUnique ==
    /\ \A e1, e2 \in engine :
          (e1.method = e2.method /\ e1.path = e2.path) => e1 = e2
    /\ HasDuplicate(configFile.routes) => (~RoutesRegistered /\ NothingServed)
    /\ mainpc = "panic" =>
          (HasDuplicate(config.Routes) /\ routeIdx <= Len(config.Routes) + 1)
    /\ RoutesRegistered =>
          /\ ~HasDuplicate(config.Routes)
          /\ RegisteredRoutes =
                {config.Routes[i] : i \in Registrable(config.Routes)}

\* the second of two routes with the same method and name was refused: main
\* stopped during RegisterRoutes with the first one registered only
C20_Witness ==
    /\ mainpc = "panic"
    /\ Len(config.Routes) = 2
    /\ config.Routes[1] # config.Routes[2]
    /\ HasDuplicate(config.Routes)
    /\ RegisteredRoutes = {config.Routes[1]}
    /\ NothingServed

----------------------------------------------------------------------------
(* Properties of the routes *)

\* the policy input a handler builds for c's request on c's route
InputOf(c) ==
    CreatePolicyInput(route[c].Method, route[c].RouteName,
                      ExtractHeaders(req[c].headers),
                      IF route[c].Method = "GET" THEN NilValue ELSE req[c].body)

\* the body of c's request is well-formed JSON (none is needed on a GET
\* route) and satisfies the request schema of c's route
BodyIsValid(c) ==
    /\ route[c].Method = "GET" \/ ~BindFails(req[c].body)
    /\ ValidateRequest(route[c].RequestSchema,
                       IF route[c].Method = "GET" THEN NilValue ELSE req[c].body).Valid

\* every policy of c's route allows the input of c's request
EveryPolicyAllows(c) ==
    \A i \in DOMAIN route[c].Policies :
        EvaluatePolicy(policies, route[c].Policies[i], InputOf(c)).Allowed

\* C21: a request that resolves to a configured route, whatever the route's
\* method among GET, POST, PUT and DELETE, goes through request validation
\* and policy evaluation, and is answered 200 when its body is valid and
\* every policy of the route allows.
C21_EveryMethodServed ==
    \A c \in Clients :
        (Resolved(c) /\ pc[c] = "done" /\ route[c].Method \in SupportedMethods
           /\ BodyIsValid(c) /\ EveryPolicyAllows(c)) =>
              /\ Ran(c, "PolicyEvaluation")
              /\ resp[c].status = 200

\* a response value as the JSON document the validator is given
AsDocument(r) ==
    IF r = NilResponse THEN NilValue
    ELSE [kind |-> "object", fields |-> [k \in DOMAIN r \ {"type"} |-> r[k]]]

\* C22: the ResponseValidation stage checks the produced response against
\* the responseSchema of the resolved route: a violation of that schema is
\* what gets reported, for every route that produces a response, and a
\* route whose responseSchema is empty or absent has nothing reported.
C22_RouteResponseSchema ==
    \A c \in Clients :
        (Resolved(c) /\ pc[c] = "done" /\ resp[c].status = 200) =>
            ((logs[c] # <<>>) <=>
                ~ValidateResponse(route[c].ResponseSchema,
                                  AsDocument(resp[c].body)).Valid)

----------------------------------------------------------------------------
(* Properties of the policies *)

\* EvaluatePolicies has returned for c, and traffic_policy, loaded, is the
\* one policy of c's route
DecidedByTraffic(c) ==
    /\ Resolved(c)
    /\ PolicyReturned(c)
    /\ route[c].Policies = <<"traffic_policy">>
    /\ "traffic_policy" \in DOMAIN policies

\* C23: traffic_policy allows an input if and only if its method is POST,
\* its path starts with /v1/services/ and ends with /traffic, and its body
\* has a trafficType among incoming, outgoing, internal, a volume that is at
\* least 0 and a priority among low, medium, high, critical; a missing body
\* or field denies.
C23_TrafficPolicyDecision ==
    \A c \in Clients :
        DecidedByTraffic(c) =>
            (policyResult[c].Allowed <=>
                /\ input[c]["method"] = "POST"
                /\ HasPrefixServices(input[c]["path"])
                /\ HasSuffixTraffic(input[c]["path"])
                /\ "body" \in DOMAIN input[c]
                /\ LET b == input[c]["body"]
                   IN  /\ "trafficType" \in DOMAIN b
                       /\ b["trafficType"] \in TrafficTypes
                       /\ "volume" \in DOMAIN b
                       /\ b["volume"].type = "number"
                       /\ b["volume"].value >= 0
                       /\ "priority" \in DOMAIN b
                       /\ b["priority"] \in Priorities)

\* the request of c resolved to a POST route and its body is missing or is
\* not well-formed JSON
PostWithoutJSON(c) ==
    /\ Resolved(c)
    /\ route[c].Method = "POST"
    /\ req[c].body.kind \in {"none", "malformed"}

\* C24: a POST request whose body is missing or is not well-formed JSON
\* ends with 400 Invalid JSON straight after the route lookup, whatever the
\* request schema and the policies of the route: no schema validation, no
\* policy evaluation and no response production take place.
C24_InvalidJSONFirst ==
    \A c \in Clients :
        PostWithoutJSON(c) =>
            /\ pc[c] \in {"handler", "done"}
            /\ stages[c] = <<"RouteLookup">>
            /\ evaluated[c] = <<>>
            /\ policyResult[c] = NoPolicyResult
            /\ pc[c] = "done" =>
                  /\ resp[c].status = 400
                  /\ resp[c].kind = "InvalidJSON"

\* a POST without a body, on a route with an empty request schema and no
\* policies, has been answered 400
C24_Witness ==
    \E c \in Clients :
        /\ PostWithoutJSON(c)
        /\ req[c].body = BodyNone
        /\ route[c].RequestSchema = SchemaEmpty
        /\ route[c].Policies = <<>>
        /\ pc[c] = "done"
        /\ resp[c].status = 400

\* the requests of c and d resolved to the same route and differ in
\* nothing but, possibly, their paths
SameButPath(c, d) ==
    /\ Resolved(c) /\ Resolved(d)
    /\ route[c] = route[d]
    /\ req[c].headers = req[d].headers
    /\ req[c].body = req[d].body

\* C25: the path the policies are given is the name of the route, not the
\* path of the request: two requests that resolve to the same route with
\* equal headers and equal bodies have the same policy input, whatever
\* their paths, hence the same decision and the same kind of outcome.
C25_PolicyPathIsRouteName ==
    \A c, d \in Clients :
        SameButPath(c, d) =>
            /\ input[c] # NoInput => input[c]["path"] = route[c].RouteName
            /\ (input[c] # NoInput /\ input[d] # NoInput) => input[c] = input[d]
            /\ (PolicyReturned(c) /\ PolicyReturned(d)) =>
                  policyResult[c] = policyResult[d]
            /\ (pc[c] = "done" /\ pc[d] = "done") =>
                  /\ resp[c].kind = resp[d].kind
                  /\ resp[c].status = resp[d].status

\* two requests for the traffic of different services, with the same
\* headers and the same body, have both been allowed and answered
C25_Witness ==
    \E c, d \in Clients :
        /\ SameButPath(c, d)
        /\ req[c].path = TrafficPath
        /\ req[d].path = TrafficPathB
        /\ pc[c] = "done" /\ pc[d] = "done"
        /\ policyResult[c].Allowed /\ policyResult[d].Allowed
        /\ resp[c].body # resp[d].body

\* the positions of c's policy list at which status_policy was evaluated
StatusEvaluated(c) ==
    {i \in DOMAIN evaluated[c] : evaluated[c][i] = "status_policy"}

\* C26: the decision of status_policy does not depend on the headers of
\* the request: it allows exactly the inputs of method GET and path
\* /v1/status, and an input that differs from an evaluated one in its
\* headers only, or in its body only, gets the same decision.
C26_StatusPolicyIgnoresHeaders ==
    \A c \in Clients : \A i \in StatusEvaluated(c) :
        LET decision == outcomes[c][i].Allowed
        IN  /\ decision <=> (input[c]["method"] = "GET" /\ input[c]["path"] = StatusPath)
            /\ \A h \in StatusHeaderSets :
                  EvaluatePolicy(policies, "status_policy",
                                 [input[c] EXCEPT !["headers"] = ExtractHeaders(h)]).Allowed
                     = decision
            /\ \A b \in PostBodies :
                  EvaluatePolicy(policies, "status_policy",
                                 CreatePolicyInput(input[c]["method"], input[c]["path"],
                                                   input[c]["headers"], b)).Allowed
                     = decision

\* status_policy has allowed a GET /v1/status without an Authorization header
C26_Witness ==
    \E c \in Clients : \E i \in StatusEvaluated(c) :
        /\ outcomes[c][i].Allowed
        /\ req[c].headers = HeadersJSON
        /\ pc[c] = "done"
        /\ resp[c].status = 200

\* the body the handler of c's request gives to CreatePolicyInput
GivenBody(c) == IF route[c].Method = "GET" THEN NilValue ELSE req[c].body

\* C27: the policy input has exactly the keys method, path and headers, and
\* the key body if and only if the body given is a JSON object; for a nil
\* body and for a body that is an array, a string, a number or a boolean
\* there is no body key, so that traffic_policy, whose rule reads fields of
\* input.body, denies.
C27_BodyKeyIffObject ==
    \A c \in Clients :
        (Resolved(c) /\ input[c] # NoInput) =>
            /\ {"method", "path", "headers"} \subseteq DOMAIN input[c]
            /\ DOMAIN input[c] \subseteq {"method", "path", "headers", "body"}
            /\ "body" \in DOMAIN input[c] <=> GivenBody(c).kind = "object"
            /\ "body" \in DOMAIN input[c] => input[c]["body"] = GivenBody(c).fields
            /\ (DecidedByTraffic(c) /\ GivenBody(c).kind # "object") =>
                  ~policyResult[c].Allowed

\* a POST whose body is a JSON array went past the validation, its input
\* has no body key, and traffic_policy has denied it
C27_Witness ==
    \E c \in Clients :
        /\ DecidedByTraffic(c)
        /\ req[c].body = BodyArray
        /\ "body" \notin DOMAIN input[c]
        /\ pc[c] = "done"
        /\ resp[c].status = 403

----------------------------------------------------------------------------
(* Properties of the responses *)

\* C28: every 200 carries a response value: the body returned for a POST
\* that passed the validation and the policies is not null, also on a
\* traffic-shaped route whose request path has fewer than four parts.
C28_SuccessHasBody ==
    \A c \in Clients :
        (Resolved(c) /\ route[c].Method = "POST" /\ pc[c] = "done"
            /\ resp[c].status = 200) =>
                resp[c].body # NilResponse

----------------------------------------------------------------------------
(* Properties of the registration *)

\* the configured routes that registerRoute refuses
SkippedRoutes == {i \in DOMAIN config.Routes :
                     config.Routes[i].Method \notin SupportedMethods}

====
